---- MODULE Spec2Model ----
(***************************************************************************)
(* Model of the reliability core of src/agents/tools.py: the sliding       *)
(* window RateLimiter (lines 18-43) and retry_with_backoff (lines 51-90).  *)
(*                                                                         *)
(* Time is counted in integer ticks (one tick = one second of time.time()) *)
(* so that the boundary case "age of a timestamp = time_window" is a       *)
(* state of the model.  The clock never runs backwards.                    *)
(***************************************************************************)
EXTENDS Integers, Sequences, FiniteSets

\* ---------------------------------------------------------------- bounds
\* Largest max_calls a limiter is constructed with (0 is constructible too).
MaxCalls == 2
\* Largest time_window a limiter is constructed with (0 is constructible too).
MaxWindow == 3
\* Tick stops advancing the clock here and record_request is cut off after
\* it (a sleep may still carry the clock up to MaxWindow further).
MaxTime == 4
\* record_request is cut off when calls already holds this many entries.
MaxLen == 5
\* Largest number of ticks that pass between the two time.time() reads of
\* one wait_if_needed call (line 27 through can_make_request, then line 40).
MaxDrift == 1
\* Largest max_retries, base_delay and backoff_factor of a RetryConfig.
MaxRetries == 3
MaxBase == 2
MaxFactor == 2

VARIABLES
    \* RateLimiter fields (lines 21-23)
    max_calls, time_window, calls,
    \* time.time()
    clock,
    \* the caller of wait_if_needed: "idle", or "sleeping" in asyncio.sleep
    pc, wake,
    \* what the last limiter operation did: its name, calls before it, the
    \* value of can_make_request, the time that evaluation read, how
    \* wait_if_needed ended, the duration handed to asyncio.sleep and the
    \* number of asyncio.sleep calls of the current wait_if_needed
    op, pre, ret, nowRead, outcome, slept, sleeps,
    \* TRUE iff the latest can_make_request since the last record_request
    \* returned False
    throttled,
    \* RetryConfig fields (lines 55-57)
    max_retries, base_delay, backoff_factor,
    \* retry_with_backoff: loop variable, control point, last_exception,
    \* number of func() invocations, the delays slept, and how the call ended
    attempt, rpc, last_exception, invocations, delays, ended,
    \* what retry_with_backoff did, in order: the outcome of each func()
    \* invocation and "sleep" for each asyncio.sleep(delay)
    log,
    \* the position of a caller that follows the protocol
    \* wait_if_needed() -> request -> record_request()
    phase,
    \* the times at which that caller recorded a request (kept while they
    \* can still share a window with a later one)
    sent,
    \* the tasks that share one limiter: for each its position, the time its
    \* sleep ends, what can_make_request told it, whether another task has
    \* recorded since, and how its last record_request came about
    callers,
    \* a task that calls wait_if_needed() and then retry_with_backoff(): whether
    \* the operation it wraps records on the limiter, what calls was when the
    \* retry run began, and where the task was cancelled
    task,
    \* the retry_with_backoff calls that are under way together: for each its
    \* RetryConfig, the locals of its frame, and what it has done so far
    runs,
    \* the search_brave_api call of a caller that makes one call after another:
    \* where it is, its arguments, what make_request did last, what it did
    \* when it raised the exception that retry_with_backoff holds and the one
    \* that retry_with_backoff raised, calls when the retry run began, the
    \* length of the sleep of line 222, and how the call ended
    brave,
    \* for each task that is suspended, the limiter operations that other
    \* tasks have completed since it was suspended
    during

limVars == <<max_calls, time_window, calls, clock, pc, wake,
             op, pre, ret, nowRead, outcome, slept, sleeps, throttled>>
retryVars == <<max_retries, base_delay, backoff_factor,
               attempt, rpc, last_exception, invocations, delays, ended, log>>
coVars == <<phase, sent, callers, task, runs, brave, during>>
vars == <<limVars, retryVars, coVars>>

\* ------------------------------------------------------------ RateLimiter

\* Variants of the four expressions below, each with one plausible slip;
\* the properties at the end of the module are required to tell them apart
\* from the code.
RetainedInclusive(cs, now, tw) == SelectSeq(cs, LAMBDA t : now - t <= tw)
RetainedAndStamped(cs, now, tw) ==
    Append(SelectSeq(cs, LAMBDA t : now - t < tw), now)
UnderCapacityInclusive(cs, mc) == Len(cs) <= mc
UnderCapacityOffByOne(cs, mc) == Len(cs) + 1 < mc
RecordedInFront(cs, now) == <<now>> \o cs
WaitTimeNewest(tw, now, cs) == tw - (now - cs[Len(cs)])
WaitTimeShort(tw, now, cs) == tw - (now - cs[1]) - 1
RetainedYounger(cs, now, tw) == SelectSeq(cs, LAMBDA t : now - t < tw - 1)
RecordedUnderCapacity(cs, now) ==
    IF Len(cs) < max_calls THEN Append(cs, now) ELSE cs
WaitTimeSignFlipped(tw, now, cs) == tw + (now - cs[1])

\* line 29: [call_time for call_time in self.calls if now - call_time < self.time_window]
Retained(cs, now, tw) == SelectSeq(cs, LAMBDA t : now - t < tw)

\* line 31: len(self.calls) < self.max_calls
UnderCapacity(cs, mc) == Len(cs) < mc

\* line 35: self.calls.append(time.time())
Recorded(cs, now) == Append(cs, now)

\* line 40: self.time_window - (time.time() - self.calls[0])
WaitTime(tw, now, cs) == tw - (now - cs[1])

\* lines 39-43: what wait_if_needed does once can_make_request has pruned
\* calls to kept: return, fail at self.calls[0] (IndexError), or hand
\* wait_time to asyncio.sleep.  now2 is the time.time() read of line 40.
WaitDecision(tw, mc, kept, now2) ==
    IF UnderCapacity(kept, mc)
    THEN [how |-> "returned", sleep |-> 0]
    ELSE IF kept = <<>>
    THEN [how |-> "raised", sleep |-> 0]
    ELSE IF WaitTime(tw, now2, kept) > 0
    THEN [how |-> "suspended", sleep |-> WaitTime(tw, now2, kept)]
    ELSE [how |-> "returned", sleep |-> 0]

\* The dataclass-generated __init__ stores whatever integers it is given:
\* there is no __post_init__, so zero is accepted for both fields.  (Negative
\* values are accepted as well and behave like zero in every operation.)
LimiterConfigs == (0 .. MaxCalls) \X (0 .. MaxWindow)

\* line 72: last_exception = None
NoException == [kind |-> "None", at |-> 0]

\* no retry_with_backoff call exists
RetryIdle ==
    /\ max_retries = 0 /\ base_delay = 1 /\ backoff_factor = 1
    /\ attempt = 0 /\ rpc = "unused"
    /\ last_exception = NoException
    /\ invocations = 0 /\ delays = <<>> /\ log = <<>>
    /\ ended = [how |-> "idle", exc |-> NoException, val |-> 0]

\* no protocol caller exists
\* what a call of search_brave_api has to show when it has ended
NoResponse == [class |-> "none", status |-> 0]

NoResult == [how |-> "none", of |-> NoResponse, at |-> 0, msg |-> ""]

\* no call of search_brave_api is under way and none has been made
NoSearch ==
    [at |-> "idle", args |-> <<>>, latest |-> NoResponse, held |-> NoResponse,
     thrown |-> NoResponse, entry |-> <<>>, nap |-> 0, result |-> NoResult]

\* no task exists
NoTask == [touches |-> FALSE, entry |-> <<>>, cancelled |-> "no"]

CoIdle ==
    /\ phase = "unused" /\ sent = <<>> /\ callers = <<>> /\ task = NoTask
    /\ runs = <<>> /\ brave = NoSearch /\ during = <<>>

\* A limiter as its construction leaves it (lines 18-23), at time 0.
LimiterInit ==
    /\ \E c \in LimiterConfigs : max_calls = c[1] /\ time_window = c[2]
    /\ calls = <<>>
    /\ clock = 0
    /\ pc = "idle" /\ wake = 0
    /\ op = "init" /\ pre = <<>> /\ ret = FALSE /\ nowRead = 0
    /\ outcome = "none" /\ slept = 0 /\ sleeps = 0
    /\ throttled = FALSE

Init == LimiterInit /\ RetryIdle /\ CoIdle

\* can_make_request (lines 25-31)
can_make_request ==
    /\ pc = "idle"
    /\ calls' = Retained(calls, clock, time_window)
    /\ ret' = UnderCapacity(calls', max_calls)
    /\ throttled' = ~ret'
    /\ op' = "can" /\ pre' = calls /\ nowRead' = clock
    /\ outcome' = "none" /\ slept' = 0 /\ sleeps' = 0
    /\ UNCHANGED <<max_calls, time_window, clock, pc, wake>>

\* record_request (lines 33-35)
record_request ==
    /\ pc = "idle"
    /\ Len(calls) < MaxLen
    /\ clock <= MaxTime
    /\ calls' = Recorded(calls, clock)
    /\ throttled' = FALSE
    /\ op' = "record" /\ pre' = calls /\ nowRead' = clock
    /\ ret' = FALSE /\ outcome' = "none" /\ slept' = 0 /\ sleeps' = 0
    /\ UNCHANGED <<max_calls, time_window, clock, pc, wake>>

\* wait_if_needed (lines 37-43) up to its suspension point.  The time.time()
\* of line 40 is a second read, taken d ticks after the one can_make_request
\* made at line 27; it is made only when can_make_request returned False.
wait_if_needed ==
    /\ pc = "idle"
    /\ \E d \in 0 .. MaxDrift :
        LET kept == Retained(calls, clock, time_window)
            can  == UnderCapacity(kept, max_calls)
            now2 == clock + d
            does == WaitDecision(time_window, max_calls, kept, now2)
        IN  /\ d > 0 => (~can /\ now2 <= MaxTime)
            /\ calls' = kept
            /\ ret' = can
            /\ throttled' = ~can
            /\ op' = "wait" /\ pre' = calls /\ nowRead' = clock
            /\ clock' = now2
            /\ outcome' = does.how
            /\ slept' = does.sleep
            /\ IF does.how = "suspended"
               THEN sleeps' = 1 /\ pc' = "sleeping" /\ wake' = now2 + does.sleep
               ELSE sleeps' = 0 /\ pc' = "idle" /\ wake' = 0
    /\ UNCHANGED <<max_calls, time_window>>

\* asyncio.sleep(wait_time) of line 43 completes and wait_if_needed returns.
wake_up ==
    /\ pc = "sleeping"
    /\ clock' = wake
    /\ pc' = "idle"
    /\ op' = "wake" /\ outcome' = "returned"
    /\ UNCHANGED <<max_calls, time_window, calls, wake, pre, ret, nowRead,
                   slept, sleeps, throttled>>

\* One second passes between two operations.
tick ==
    /\ pc = "idle"
    /\ clock < MaxTime
    /\ clock' = clock + 1
    /\ op' = "tick" /\ pre' = <<>> /\ ret' = FALSE /\ nowRead' = 0
    /\ outcome' = "none" /\ slept' = 0 /\ sleeps' = 0
    /\ UNCHANGED <<max_calls, time_window, calls, pc, wake, throttled>>

\* The operations as any caller may invoke them, in any order.
CanMakeRequest == can_make_request /\ UNCHANGED <<retryVars, coVars>>
RecordRequest == record_request /\ UNCHANGED <<retryVars, coVars>>
WaitIfNeeded == wait_if_needed /\ UNCHANGED <<retryVars, coVars>>
Wake == wake_up /\ UNCHANGED <<retryVars, coVars>>
Tick == tick /\ UNCHANGED <<retryVars, coVars>>

Next ==
    \/ CanMakeRequest
    \/ RecordRequest
    \/ WaitIfNeeded
    \/ Wake
    \/ Tick

Spec == Init /\ [][Next]_vars

\* ----------------------------------------------------- retry_with_backoff

\* Variants with one plausible slip each (see above).
RetryableAnything(o) == o # "ok"
LastAttemptEarly(a, mr) == a = mr - 1
RememberedFirst(prev, caught) == IF prev = [kind |-> "None", at |-> 0] THEN caught ELSE prev

\* b ** e for an integer exponent e >= 0 (0 ** 0 is 1, as in Python)
RECURSIVE Pow(_, _)
Pow(b, e) == IF e <= 0 THEN 1 ELSE b * Pow(b, e - 1)

DelayOneBased(base, factor, a) == base * Pow(factor, a + 1)

\* line 85: retry_config.base_delay * (retry_config.backoff_factor ** attempt)
Delay(base, factor, a) == base * Pow(factor, a)

\* line 78: except retryable_exceptions as e
Retryable(o) == o = "retryable"

\* line 79: last_exception = e
Remembered(prev, caught) == caught

\* line 81: if attempt == retry_config.max_retries
LastAttempt(a, mr) == a = mr

\* line 74: for attempt in range(...) takes its next value
NextAttemptStuck(a) == a
NextAttempt(a) == a + 1

\* RetryConfig.__init__ (lines 54-57) stores its three arguments unchecked:
\* a negative max_retries, a zero base_delay and a zero backoff_factor are
\* all constructible.
RetryConfigs == ((0 - 1) .. MaxRetries) \X (0 .. MaxBase) \X (0 .. MaxFactor)

\* What one invocation of func() does: return, raise one of
\* retryable_exceptions, or raise anything else.
FuncOutcomes == {"ok", "retryable", "other"}

\* A limiter nobody uses, for the runs of retry_with_backoff alone.
LimiterIdle ==
    /\ max_calls = 1 /\ time_window = 1 /\ calls = <<>> /\ clock = 0
    /\ pc = "idle" /\ wake = 0
    /\ op = "init" /\ pre = <<>> /\ ret = FALSE /\ nowRead = 0
    /\ outcome = "none" /\ slept = 0 /\ sleeps = 0 /\ throttled = FALSE

\* retry_with_backoff entered with a constructed RetryConfig (lines 69-72)
retry_enter ==
    /\ \E c \in RetryConfigs :
         max_retries = c[1] /\ base_delay = c[2] /\ backoff_factor = c[3]
    /\ attempt = 0 /\ rpc = "loop"
    /\ last_exception = NoException
    /\ invocations = 0 /\ delays = <<>> /\ log = <<>>
    /\ ended = [how |-> "running", exc |-> NoException, val |-> 0]

RetryInit == LimiterIdle /\ retry_enter /\ CoIdle

\* One iteration of the for loop (lines 74-87) up to its return, its raise
\* or its suspension in asyncio.sleep(delay), func() ending as o.  The value
\* func() returns on its k-th invocation is written k.
retry_iteration(o) ==
    /\ rpc = "loop"
    /\ attempt <= max_retries
    /\ invocations' = invocations + 1
    /\ LET caught == [kind |-> o, at |-> attempt + 1]
       IN  IF o = "ok"
           THEN /\ rpc' = "done"
                /\ ended' = [how |-> "returned", exc |-> NoException,
                             val |-> invocations + 1]
                /\ log' = Append(log, o)
                /\ UNCHANGED <<last_exception, delays>>
           ELSE IF ~Retryable(o)
           THEN /\ rpc' = "done"
                /\ ended' = [how |-> "raised", exc |-> caught, val |-> 0]
                /\ log' = Append(log, o)
                /\ UNCHANGED <<last_exception, delays>>
           ELSE /\ last_exception' = Remembered(last_exception, caught)
                /\ IF LastAttempt(attempt, max_retries)
                   THEN \* break, then line 90: raise last_exception
                        /\ rpc' = "done"
                        /\ ended' = [how |-> "raised",
                                     exc |-> last_exception', val |-> 0]
                        /\ log' = Append(log, o)
                        /\ UNCHANGED delays
                   ELSE /\ rpc' = "sleeping"
                        /\ delays' = Append(delays,
                               Delay(base_delay, backoff_factor, attempt))
                        /\ log' = log \o <<o, "sleep">>
                        /\ UNCHANGED ended
    /\ UNCHANGED <<max_retries, base_delay, backoff_factor, attempt>>

\* asyncio.sleep(delay) of line 87 completes; the loop takes its next value.
retry_resume ==
    /\ rpc = "sleeping"
    /\ attempt' = NextAttempt(attempt)
    /\ rpc' = "loop"
    /\ UNCHANGED <<max_retries, base_delay, backoff_factor, last_exception,
                   invocations, delays, ended, log>>

\* range(max_retries + 1) has no value left without a break having happened:
\* control reaches line 90 and `raise last_exception` runs.  In the code this
\* happens only for an empty range, where last_exception is still None and
\* the raise statement itself fails with a TypeError.
retry_fall_through ==
    /\ rpc = "loop"
    /\ attempt > max_retries
    /\ rpc' = "done"
    /\ ended' = [how |-> "raised",
                 exc |-> IF last_exception = NoException
                         THEN [kind |-> "TypeError", at |-> 0]
                         ELSE last_exception,
                 val |-> 0]
    /\ UNCHANGED <<max_retries, base_delay, backoff_factor, attempt,
                   last_exception, invocations, delays, log>>

\* retry_with_backoff around an operation that leaves the limiter alone
Invoke ==
    /\ \E o \in FuncOutcomes : retry_iteration(o)
    /\ UNCHANGED <<limVars, coVars>>
Resume == retry_resume /\ UNCHANGED <<limVars, coVars>>
FallThrough == retry_fall_through /\ UNCHANGED <<limVars, coVars>>

RetryNext ==
    \/ Invoke
    \/ Resume
    \/ FallThrough

SpecRetry == RetryInit /\ [][RetryNext]_vars

\* The same run when every func() invocation and every asyncio.sleep(delay)
\* comes to an end: a step that can be taken is eventually taken.
SpecRetryFair == SpecRetry /\ WF_vars(RetryNext)

\* ------------------------------------------- one caller, following the protocol

\* A single caller (no one else touches the limiter) that performs, for each
\* outbound request, wait_if_needed() -> request -> record_request(), the
\* order section 6 of the specification prescribes.
ProtoInit ==
    /\ LimiterInit /\ RetryIdle
    /\ phase = "start" /\ sent = <<>> /\ callers = <<>> /\ task = NoTask
    /\ runs = <<>> /\ brave = NoSearch /\ during = <<>>

\* await limiter.wait_if_needed(): returns, fails, or suspends
ProtoWait ==
    /\ phase = "start"
    /\ wait_if_needed
    /\ phase' = IF outcome' = "raised" THEN "failed"
                ELSE IF pc' = "sleeping" THEN "waiting" ELSE "request"
    /\ UNCHANGED <<sent, callers, task, runs, brave, during, retryVars>>

\* the suspension ends and wait_if_needed() returns
ProtoWake ==
    /\ phase = "waiting"
    /\ wake_up
    /\ phase' = "request"
    /\ UNCHANGED <<sent, callers, task, runs, brave, during, retryVars>>

\* the request has been sent: exactly one record_request().  sent remembers
\* the time of every request sent, independently of what the limiter keeps in
\* calls; times that can no longer share a window with a later request (their
\* age has reached time_window) are dropped from it.
ProtoRecord ==
    /\ phase = "request"
    /\ record_request
    /\ phase' = "start"
    /\ sent' = Append(SelectSeq(sent, LAMBDA t : clock - t < time_window),
                      clock)
    /\ UNCHANGED <<callers, task, runs, brave, during, retryVars>>

\* the caller looks at can_make_request() without sending anything
ProtoCheck == can_make_request /\ UNCHANGED <<coVars, retryVars>>

\* time passes, between two calls or while the request is under way
ProtoTick == tick /\ UNCHANGED <<coVars, retryVars>>

ProtoNext ==
    \/ ProtoWait
    \/ ProtoWake
    \/ ProtoRecord
    \/ ProtoCheck
    \/ ProtoTick

SpecProto == ProtoInit /\ [][ProtoNext]_vars

\* ------------------------------------------------ two callers on one limiter

\* Two tasks of one event loop share a limiter and each follows
\* wait_if_needed() -> request -> record_request().  A task runs without
\* interruption from one suspension point to the next; the suspension points
\* are the asyncio.sleep of line 43 and the request itself, which lies between
\* the return of wait_if_needed() and record_request().
Callers == {1, 2}

soloVars == <<pc, wake, op, pre, ret, nowRead, outcome, slept, sleeps,
              throttled>>

Later(a, b) == IF a >= b THEN a ELSE b

TwoInit ==
    /\ LimiterInit /\ RetryIdle
    /\ phase = "unused" /\ sent = <<>> /\ task = NoTask
    /\ runs = <<>> /\ brave = NoSearch /\ during = <<>>
    /\ callers = [i \in Callers |->
                    [at |-> "start", wake |-> 0, saw |-> FALSE,
                     stale |-> FALSE, last |-> "none"]]

\* task i: await limiter.wait_if_needed() (lines 37-43), up to its return or
\* its suspension
caller_wait(i) ==
    /\ callers[i].at = "start"
    /\ \E d \in 0 .. MaxDrift :
        LET kept == Retained(calls, clock, time_window)
            can  == UnderCapacity(kept, max_calls)
            now2 == clock + d
            does == WaitDecision(time_window, max_calls, kept, now2)
        IN  /\ d > 0 => (~can /\ now2 <= MaxTime)
            /\ calls' = kept
            /\ clock' = now2
            /\ callers' = [callers EXCEPT ![i] =
                  [at    |-> IF does.how = "raised" THEN "failed"
                             ELSE IF does.how = "suspended" THEN "asleep"
                             ELSE "request",
                   wake  |-> IF does.how = "suspended"
                             THEN now2 + does.sleep ELSE 0,
                   saw   |-> can,
                   stale |-> FALSE,
                   last  |-> callers[i].last]]
    /\ UNCHANGED <<max_calls, time_window, soloVars, phase, sent, task, runs, brave,
                   retryVars>>

\* task i: its asyncio.sleep(wait_time) is over, at the time asked for or
\* later, and wait_if_needed() returns without looking at calls again
caller_wake(i) ==
    /\ callers[i].at = "asleep"
    /\ clock' = Later(clock, callers[i].wake)
    /\ callers' = [callers EXCEPT ![i].at = "request"]
    /\ UNCHANGED <<max_calls, time_window, calls, soloVars, phase, sent,
                   task, runs, brave, retryVars>>

\* task i: its request has been sent, record_request() (lines 33-35).  Every
\* other task that has checked and not yet recorded now holds an answer that
\* is out of date.
caller_record(i) ==
    /\ callers[i].at = "request"
    /\ Len(calls) < MaxLen
    /\ clock <= MaxTime
    /\ calls' = Recorded(calls, clock)
    /\ sent' = Append(SelectSeq(sent, LAMBDA t : clock - t < time_window),
                      clock)
    /\ callers' = [j \in Callers |->
          IF j = i
          THEN [callers[j] EXCEPT !.at = "start",
                   !.last = IF callers[j].stale THEN "raced" ELSE "clean"]
          ELSE IF callers[j].at \in {"asleep", "request"}
          THEN [callers[j] EXCEPT !.stale = TRUE]
          ELSE callers[j]]
    /\ UNCHANGED <<max_calls, time_window, clock, soloVars, phase, task, runs, brave,
                   retryVars>>

\* one second passes
two_tick ==
    /\ clock < MaxTime
    /\ clock' = clock + 1
    /\ UNCHANGED <<max_calls, time_window, calls, soloVars, phase, sent,
                   callers, task, runs, brave, retryVars>>

\* the two tasks, nothing else being looked at
CallerWait(i) == caller_wait(i) /\ UNCHANGED during
CallerWake(i) == caller_wake(i) /\ UNCHANGED during
CallerRecord(i) == caller_record(i) /\ UNCHANGED during
TwoTick == two_tick /\ UNCHANGED during

TwoNext ==
    \/ \E i \in Callers : CallerWait(i)
    \/ \E i \in Callers : CallerWake(i)
    \/ \E i \in Callers : CallerRecord(i)
    \/ TwoTick

SpecTwo == TwoInit /\ [][TwoNext]_vars

\* ---------------------------------- a task: wait_if_needed, then a retry run

\* A task does what search_brave_api does at lines 132 and 187-191: it awaits
\* wait_if_needed() and then retry_with_backoff(operation).  The operation
\* either records on the limiter each time it is invoked, as make_request does
\* at line 159, or leaves the limiter alone.  The host may cancel the task
\* while it is suspended; CancelledError is then raised at the await.
Cancelled == [kind |-> "CancelledError", at |-> 0]

\* lines 75-78: the except clause guards the try body only, and takes only
\* the retryable kinds; an exception raised inside the handler (line 87) or of
\* another kind leaves retry_with_backoff
CaughtByRetryAnywhere(kind, place) == TRUE
CaughtByRetry(kind, place) == place = "body" /\ Retryable(kind)

\* line 54: base_delay: float = 1.0, backoff_factor: float = 2.0
DefaultBaseDelay == 1
DefaultBackoffFactor == 2

\* the task leaves the delays at their defaults, as line 189 does for
\* backoff_factor; they have no part in what the task does to the limiter
TaskRetryConfigs ==
    {c \in RetryConfigs :
        c[2] = DefaultBaseDelay /\ c[3] = DefaultBackoffFactor}

TaskInit ==
    /\ LimiterInit
    /\ \E c \in TaskRetryConfigs :
         max_retries = c[1] /\ base_delay = c[2] /\ backoff_factor = c[3]
    /\ attempt = 0 /\ rpc = "unused"
    /\ last_exception = NoException
    /\ invocations = 0 /\ delays = <<>> /\ log = <<>>
    /\ ended = [how |-> "idle", exc |-> NoException, val |-> 0]
    /\ phase = "start" /\ sent = <<>> /\ callers = <<>> /\ task = NoTask
    /\ runs = <<>> /\ brave = NoSearch /\ during = <<>>

\* line 132: await brave_rate_limiter.wait_if_needed()
TaskWait ==
    /\ phase = "start"
    /\ wait_if_needed
    /\ phase' = IF outcome' = "raised" THEN "failed"
                ELSE IF pc' = "sleeping" THEN "waiting" ELSE "ready"
    /\ UNCHANGED <<sent, callers, task, runs, brave, during, retryVars>>

\* the sleep of line 43 ends
TaskWake ==
    /\ phase = "waiting"
    /\ wake_up
    /\ phase' = "ready"
    /\ UNCHANGED <<sent, callers, task, runs, brave, during, retryVars>>

\* lines 187-191 and 69-72: retry_with_backoff is entered
TaskEnter ==
    /\ phase = "ready"
    /\ phase' = "retrying"
    /\ \E t \in BOOLEAN : task' = [task EXCEPT !.touches = t, !.entry = calls]
    /\ attempt' = 0 /\ rpc' = "loop"
    /\ last_exception' = NoException
    /\ invocations' = 0 /\ delays' = <<>> /\ log' = <<>>
    /\ ended' = [how |-> "running", exc |-> NoException, val |-> 0]
    /\ UNCHANGED <<max_retries, base_delay, backoff_factor, limVars, sent,
                   callers, runs, brave, during>>

\* one iteration of the loop; the operation records first (line 159) when it
\* is one that touches the limiter
TaskInvoke ==
    /\ phase = "retrying"
    /\ \E o \in FuncOutcomes : retry_iteration(o)
    /\ IF task.touches THEN record_request ELSE UNCHANGED limVars
    /\ UNCHANGED coVars

\* a retry that records on the limiter itself each time it resumes
TaskResumeRecording ==
    /\ phase = "retrying"
    /\ retry_resume
    /\ record_request
    /\ UNCHANGED coVars

\* the sleep of line 87 ends
TaskResume ==
    /\ phase = "retrying"
    /\ retry_resume
    /\ UNCHANGED <<limVars, coVars>>

\* line 90 reached with the range exhausted
TaskFallThrough ==
    /\ phase = "retrying"
    /\ retry_fall_through
    /\ UNCHANGED <<limVars, coVars>>

\* retry_with_backoff has returned or raised, and so does the task's call;
\* the task may go on to the next one
TaskReturn ==
    /\ phase = "retrying"
    /\ rpc = "done"
    /\ phase' = "start"
    /\ UNCHANGED <<limVars, retryVars, sent, callers, task, runs, brave, during>>

\* time passes, whatever the task is doing short of sleeping in the limiter
TaskTick == tick /\ UNCHANGED <<retryVars, coVars>>

\* cancelled while suspended at line 43: wait_if_needed has no handler, and
\* line 132 lies outside the try statement of line 185
TaskCancelWait ==
    /\ phase = "waiting"
    /\ pc = "sleeping"
    /\ pc' = "idle"
    /\ op' = "cancel" /\ outcome' = "cancelled"
    /\ phase' = "cancelled"
    /\ task' = [task EXCEPT !.cancelled = "wait"]
    /\ UNCHANGED <<max_calls, time_window, calls, clock, wake, pre, ret,
                   nowRead, slept, sleeps, throttled, retryVars, sent,
                   callers, runs, brave, during>>

\* cancelled while suspended at line 87, inside the except clause: the error
\* leaves retry_with_backoff and the handlers of lines 218-231 re-raise it
TaskCancelBackoff ==
    /\ phase = "retrying"
    /\ rpc = "sleeping"
    /\ task' = [task EXCEPT !.cancelled = "backoff"]
    /\ IF CaughtByRetry("CancelledError", "handler")
       THEN /\ last_exception' = Remembered(last_exception, Cancelled)
            /\ attempt' = NextAttempt(attempt)
            /\ rpc' = "loop"
            /\ UNCHANGED <<phase, ended>>
       ELSE /\ rpc' = "done"
            /\ ended' = [how |-> "raised", exc |-> Cancelled, val |-> 0]
            /\ phase' = "cancelled"
            /\ UNCHANGED <<last_exception, attempt>>
    /\ UNCHANGED <<max_retries, base_delay, backoff_factor, invocations,
                   delays, log, limVars, sent, callers, runs, brave, during>>

TaskNext ==
    \/ TaskWait
    \/ TaskWake
    \/ TaskEnter
    \/ TaskInvoke
    \/ TaskResume
    \/ TaskFallThrough
    \/ TaskReturn
    \/ TaskTick
    \/ TaskCancelWait
    \/ TaskCancelBackoff

SpecTask == TaskInit /\ [][TaskNext]_vars

\* ------------------------------------------- two retry runs under way together

\* Two tasks of one event loop are each inside retry_with_backoff.  A run's
\* state is the frame of its coroutine: retry_config, attempt, last_exception
\* (lines 69-74).  seen lists what the run's operation did at each invocation.
Runs == {1, 2}

\* the frame of a run entered with RetryConfig c (lines 69-72)
Entered(c) ==
    [max_retries |-> c[1], base_delay |-> c[2], backoff_factor |-> c[3],
     attempt |-> 0, rpc |-> "loop", last_exception |-> NoException,
     invocations |-> 0, delays |-> <<>>, seen |-> <<>>,
     ended |-> [how |-> "running", exc |-> NoException, val |-> 0]]

\* one iteration of the loop (lines 74-87) on frame r, func() ending as o
run_iteration(r, o) ==
    LET caught == [kind |-> o, at |-> r.attempt + 1]
        kept   == Remembered(r.last_exception, caught)
        called == [r EXCEPT !.invocations = @ + 1, !.seen = Append(@, o)]
    IN  IF o = "ok"
        THEN [called EXCEPT !.rpc = "done",
                 !.ended = [how |-> "returned", exc |-> NoException,
                            val |-> r.invocations + 1]]
        ELSE IF ~Retryable(o)
        THEN [called EXCEPT !.rpc = "done",
                 !.ended = [how |-> "raised", exc |-> caught, val |-> 0]]
        ELSE IF LastAttempt(r.attempt, r.max_retries)
        THEN [called EXCEPT !.rpc = "done", !.last_exception = kept,
                 !.ended = [how |-> "raised", exc |-> kept, val |-> 0]]
        ELSE [called EXCEPT !.rpc = "sleeping", !.last_exception = kept,
                 !.delays = Append(@, Delay(r.base_delay, r.backoff_factor,
                                            r.attempt))]

\* the sleep of line 87 ends and the loop takes its next value
run_resume(r) == [r EXCEPT !.rpc = "loop", !.attempt = NextAttempt(@)]

\* line 90 reached with the range exhausted (see retry_fall_through)
run_fall_through(r) ==
    [r EXCEPT !.rpc = "done",
        !.ended = [how |-> "raised",
                   exc |-> IF r.last_exception = NoException
                           THEN [kind |-> "TypeError", at |-> 0]
                           ELSE r.last_exception,
                   val |-> 0]]

\* What run i works on: attempt and last_exception are locals of its own
\* coroutine frame (lines 72 and 74), not module or object state.
FrameSharingCounter(rs, i) ==
    [rs[i] EXCEPT !.attempt = rs[1].attempt,
                  !.last_exception = rs[1].last_exception]
Frame(rs, i) == rs[i]

RunsInit ==
    /\ LimiterIdle /\ RetryIdle
    /\ phase = "unused" /\ sent = <<>> /\ callers = <<>> /\ task = NoTask
    /\ brave = NoSearch /\ during = <<>>
    /\ \E c1, c2 \in RetryConfigs :
         runs = [i \in Runs |-> Entered(IF i = 1 THEN c1 ELSE c2)]

RunInvoke(i) ==
    /\ Frame(runs, i).rpc = "loop"
    /\ Frame(runs, i).attempt <= runs[i].max_retries
    /\ \E o \in FuncOutcomes :
         runs' = [runs EXCEPT ![i] = run_iteration(Frame(runs, i), o)]
    /\ UNCHANGED <<limVars, retryVars, phase, sent, callers, task, brave, during>>

RunResume(i) ==
    /\ Frame(runs, i).rpc = "sleeping"
    /\ runs' = [runs EXCEPT ![i] = run_resume(Frame(runs, i))]
    /\ UNCHANGED <<limVars, retryVars, phase, sent, callers, task, brave, during>>

RunFallThrough(i) ==
    /\ Frame(runs, i).rpc = "loop"
    /\ Frame(runs, i).attempt > runs[i].max_retries
    /\ runs' = [runs EXCEPT ![i] = run_fall_through(Frame(runs, i))]
    /\ UNCHANGED <<limVars, retryVars, phase, sent, callers, task, brave, during>>

RunsNext ==
    \/ \E i \in Runs : RunInvoke(i)
    \/ \E i \in Runs : RunResume(i)
    \/ \E i \in Runs : RunFallThrough(i)

SpecRuns == RunsInit /\ [][RunsNext]_vars

\* ------------------------------------------------------------ search_brave_api

\* One caller makes one search_brave_api call after another (lines 93-231).
\* The clock counts in units of which time_window holds MaxWindow, a third of
\* a minute or less for the limiter of line 47, so that the backoff sleeps of
\* a call, seven seconds together, need not move it.
\* brave_rate_limiter (line 47) is one limiter with a fixed quota, 100 calls
\* per 60 seconds; the model puts the largest quota it can explore in its
\* place.
BraveLimiterConfigs == {<<MaxCalls, MaxWindow>>}

\* line 189: RetryConfig(max_retries=3, base_delay=1.0)
BraveRetries == 3
BraveBaseDelay == 1

\* line 222: await asyncio.sleep(60)
BraveNap == 60

\* line 128: max_results < 1 or max_results > 50
MinResults == 1
MaxResults == 50

\* the arguments tried: a query is a string of spaces and letters
Queries == {<<>>, <<" ">>, <<" ", "a">>}
Keys == {<<>>, <<"k">>}
ResultCounts == {MinResults - 1, MinResults, MaxResults, MaxResults + 1}

\* str.strip() of line 122
RECURSIVE StripLeft(_)
StripLeft(q) ==
    IF q # <<>> /\ Head(q) = " " THEN StripLeft(Tail(q)) ELSE q

RECURSIVE StripRight(_)
StripRight(q) ==
    IF q # <<>> /\ q[Len(q)] = " "
    THEN StripRight(SubSeq(q, 1, Len(q) - 1))
    ELSE q

Strip(q) == StripRight(StripLeft(q))

\* lines 121-129: the message of the ValueError raised, or "ok"
ValidateOffByOne(q, k, m) ==
    IF q = <<>> \/ Strip(q) = <<>> THEN "Query cannot be empty"
    ELSE IF k = <<>> THEN "API key is required"
    ELSE IF m <= MinResults \/ m >= MaxResults
    THEN "max_results must be between 1 and 50"
    ELSE "ok"
Validate(q, k, m) ==
    IF q = <<>> \/ Strip(q) = <<>> THEN "Query cannot be empty"
    ELSE IF k = <<>> THEN "API key is required"
    ELSE IF m < MinResults \/ m > MaxResults
    THEN "max_results must be between 1 and 50"
    ELSE "ok"

\* What client.get can come back with: no response at all (status 0), or a
\* response with a status code whose body is JSON or not.
ErrorStatuses == {401, 403, 429, 500}

Responses ==
    {[status |-> 0, json |-> FALSE],
     [status |-> 200, json |-> TRUE], [status |-> 200, json |-> FALSE]}
    \cup {[status |-> c, json |-> FALSE] : c \in ErrorStatuses}

\* lines 160-183: what make_request does with it
MakeRequest(resp) ==
    IF resp.status = 0
    THEN [class |-> "RequestError", status |-> 0]
    ELSE IF resp.status \in {401, 429, 403}
    THEN [class |-> "HTTPStatusError", status |-> resp.status]
    ELSE IF resp.status >= 400
    THEN [class |-> "HTTPStatusError", status |-> resp.status]
    ELSE IF ~resp.json
    THEN [class |-> "Exception", status |-> resp.status]
    ELSE [class |-> "ok", status |-> resp.status]

\* line 190: retryable_exceptions=(httpx.RequestError, httpx.HTTPStatusError)
BraveRetryable == {"RequestError", "HTTPStatusError"}

\* how retry_with_backoff sees what make_request did
AsOutcome(o) ==
    IF o.class = "ok" THEN "ok"
    ELSE IF o.class \in BraveRetryable THEN "retryable"
    ELSE "other"

\* lines 218-222: the handler sleeps before it re-raises
NapForAnyStatus(e) == e.class = "HTTPStatusError"
NapFor(e) == e.class = "HTTPStatusError" /\ e.status = 429

BraveInit ==
    /\ LimiterInit
    /\ <<max_calls, time_window>> \in BraveLimiterConfigs
    /\ max_retries = BraveRetries /\ base_delay = BraveBaseDelay
    /\ backoff_factor = DefaultBackoffFactor
    /\ attempt = 0 /\ rpc = "unused"
    /\ last_exception = NoException
    /\ invocations = 0 /\ delays = <<>> /\ log = <<>>
    /\ ended = [how |-> "idle", exc |-> NoException, val |-> 0]
    /\ phase = "unused" /\ sent = <<>> /\ callers = <<>> /\ task = NoTask
    /\ runs = <<>>
    /\ brave = NoSearch /\ during = <<>>

\* the call up to its first suspension or its ValueError: lines 121-132
BraveCall ==
    /\ brave.at = "idle"
    /\ \E q \in Queries, k \in Keys, m \in ResultCounts :
        LET v     == Validate(q, k, m)
            fresh == [NoSearch EXCEPT !.args = <<q, k, m>>]
        IN  IF v # "ok"
            THEN /\ brave' = [fresh EXCEPT !.result =
                        [how |-> "raised",
                         of |-> [class |-> "ValueError", status |-> 0],
                         at |-> 0, msg |-> v]]
                 /\ UNCHANGED limVars
            ELSE /\ wait_if_needed
                 /\ brave' =
                      IF outcome' = "raised"
                      THEN [fresh EXCEPT !.result =
                               [how |-> "raised",
                                of |-> [class |-> "IndexError", status |-> 0],
                                at |-> 0, msg |-> ""]]
                      ELSE [fresh EXCEPT !.at =
                               IF pc' = "sleeping" THEN "waiting"
                               ELSE "ready"]
    /\ UNCHANGED <<retryVars, phase, sent, callers, task, runs, during>>

\* the sleep of line 43 ends
BraveWake ==
    /\ brave.at = "waiting"
    /\ wake_up
    /\ brave' = [brave EXCEPT !.at = "ready"]
    /\ UNCHANGED <<retryVars, phase, sent, callers, task, runs, during>>

\* lines 187-191 and 69-72: retry_with_backoff is entered
BraveEnter ==
    /\ brave.at = "ready"
    /\ brave' = [brave EXCEPT !.at = "retrying", !.args = <<>>,
                              !.entry = calls]
    /\ attempt' = 0 /\ rpc' = "loop"
    /\ last_exception' = NoException
    /\ invocations' = 0 /\ delays' = <<>> /\ log' = <<>>
    /\ ended' = [how |-> "running", exc |-> NoException, val |-> 0]
    /\ UNCHANGED <<max_retries, base_delay, backoff_factor, limVars, phase,
                   sent, callers, task, runs, during>>

\* one iteration of the retry loop around make_request: record_request at
\* line 159, then the request and what lines 160-183 make of the response
BraveAttempt ==
    /\ brave.at = "retrying"
    /\ record_request
    /\ \E resp \in Responses :
        LET o == MakeRequest(resp)
        IN  /\ retry_iteration(AsOutcome(o))
            /\ brave' = [brave EXCEPT
                  !.latest = o,
                  !.held = IF last_exception' # last_exception THEN o ELSE @,
                  !.thrown =
                      IF rpc' = "done" /\ ended'.how = "raised"
                      THEN IF ended'.exc.at = attempt + 1 THEN o
                           ELSE brave.held
                      ELSE @]
    /\ UNCHANGED <<phase, sent, callers, task, runs, during>>

\* the sleep of line 87 ends
BraveResume ==
    /\ brave.at = "retrying"
    /\ retry_resume
    /\ UNCHANGED <<limVars, coVars>>

\* search_brave_api is left and the frame of its retry_with_backoff call is
\* gone; the RetryConfig of line 189 is the same in every call
frame_dropped ==
    /\ attempt' = 0 /\ rpc' = "unused"
    /\ last_exception' = NoException
    /\ invocations' = 0 /\ delays' = <<>> /\ log' = <<>>
    /\ ended' = [how |-> "idle", exc |-> NoException, val |-> 0]
    /\ UNCHANGED <<max_retries, base_delay, backoff_factor>>

\* retry_with_backoff raised: the handlers of lines 218-231, each of which
\* re-raises what it caught, the first after a sleep when the status is 429
BraveHandle ==
    /\ brave.at = "retrying"
    /\ rpc = "done" /\ ended.how = "raised"
    /\ IF NapFor(brave.thrown)
       THEN /\ brave' = [brave EXCEPT !.at = "napping", !.nap = BraveNap]
            /\ UNCHANGED retryVars
       ELSE /\ brave' = [brave EXCEPT !.at = "idle",
                            !.result = [how |-> "raised", of |-> brave.thrown,
                                        at |-> ended.exc.at, msg |-> ""]]
            /\ frame_dropped
    /\ UNCHANGED <<limVars, phase, sent, callers, task, runs, during>>

\* the sleep of line 222 ends; line 223 re-raises
BraveNapEnd ==
    /\ brave.at = "napping"
    /\ brave' = [brave EXCEPT !.at = "idle",
                    !.result = [how |-> "raised", of |-> brave.thrown,
                                at |-> ended.exc.at, msg |-> ""]]
    /\ frame_dropped
    /\ UNCHANGED <<limVars, phase, sent, callers, task, runs, during>>

\* retry_with_backoff returned the data: lines 193-216
BraveReturn ==
    /\ brave.at = "retrying"
    /\ rpc = "done" /\ ended.how = "returned"
    /\ brave' = [brave EXCEPT !.at = "idle",
                    !.result = [how |-> "returned",
                                of |-> [class |-> "ok", status |-> 200],
                                at |-> ended.val, msg |-> ""]]
    /\ frame_dropped
    /\ UNCHANGED <<limVars, phase, sent, callers, task, runs, during>>

\* time passes
BraveTick == tick /\ UNCHANGED <<retryVars, coVars>>

BraveNext ==
    \/ BraveCall
    \/ BraveWake
    \/ BraveEnter
    \/ BraveAttempt
    \/ BraveResume
    \/ BraveHandle
    \/ BraveNapEnd
    \/ BraveReturn
    \/ BraveTick

SpecBrave == BraveInit /\ [][BraveNext]_vars

\* ------------------------------------- tasks suspended, other tasks at work

\* The tasks of one event loop again, now with the backoff delay of
\* retry_with_backoff as a second place at which a task is suspended, and
\* with can_make_request() as a call of its own.  Both delays are
\* "await asyncio.sleep(...)" (lines 43 and 87): the task gives the event
\* loop back for the length of the delay.

\* a delay that keeps the event loop for its whole length, as time.sleep does
YieldsNowhere(at) == FALSE

\* lines 43 and 87: await asyncio.sleep(...) hands the event loop to the
\* other tasks
Yields(at) == at \in {"asleep", "backoff"}

\* the task is inside one of the two delays
Suspended(c) == c.at \in {"asleep", "backoff"}

\* the task is in a delay and has not given the event loop back
Holds(c) == Suspended(c) /\ ~Yields(c.at)

\* task j can be run by the event loop: no other task holds the loop
LoopFree(rs, j) == \A i \in Callers \ {j} : ~Holds(rs[i])

\* a limiter as search_brave_api is given one: a quota and a window that are
\* both positive (line 47)
BusyLimiterConfigs == {<<MaxCalls, MaxWindow>>}

BusyInit ==
    /\ LimiterInit /\ RetryIdle
    /\ <<max_calls, time_window>> \in BusyLimiterConfigs
    /\ phase = "unused" /\ sent = <<>> /\ task = NoTask
    /\ runs = <<>> /\ brave = NoSearch
    /\ during = [i \in Callers |-> {}]
    /\ callers = [i \in Callers |->
                    [at |-> "start", wake |-> 0, saw |-> FALSE,
                     stale |-> FALSE, last |-> "none"]]

\* task j has completed the limiter call "what": every other task that is
\* suspended has seen it happen during its delay
Noted(j, what) ==
    [i \in Callers |->
        IF i # j /\ Suspended(callers[i]) THEN during[i] \cup {what}
        ELSE during[i]]

\* task j: limiter.can_make_request() (lines 25-31) and nothing after it
BusyCheck(j) ==
    /\ LoopFree(callers, j)
    /\ callers[j].at = "start"
    /\ calls' = Retained(calls, clock, time_window)
    /\ during' = Noted(j, "can")
    /\ UNCHANGED <<max_calls, time_window, clock, soloVars, phase, sent,
                   callers, task, runs, brave, retryVars>>

\* task j: await limiter.wait_if_needed(); the call is completed when it
\* returns at once, and otherwise task j starts a delay of its own
BusyWait(j) ==
    /\ LoopFree(callers, j)
    /\ caller_wait(j)
    /\ during' = IF callers'[j].at = "request" THEN Noted(j, "wait")
                 ELSE [during EXCEPT ![j] = {}]

\* task j: its asyncio.sleep(wait_time) of line 43 is over and its
\* wait_if_needed() is completed
BusyWake(j) ==
    /\ LoopFree(callers, j)
    /\ caller_wake(j)
    /\ during' = [Noted(j, "wait") EXCEPT ![j] = {}]

\* task j: limiter.record_request() (lines 33-35)
BusyRecord(j) ==
    /\ LoopFree(callers, j)
    /\ caller_record(j)
    /\ during' = Noted(j, "record")

\* task j: its request has failed inside retry_with_backoff and the run
\* sleeps before the next attempt (lines 85-87); a is the attempt that failed
BusyBackoff(j) ==
    /\ LoopFree(callers, j)
    /\ callers[j].at = "request"
    /\ \E a \in 0 .. (BraveRetries - 1) :
        LET delay == Delay(BraveBaseDelay, DefaultBackoffFactor, a)
        IN  /\ clock + delay <= MaxTime
            /\ callers' = [callers EXCEPT ![j].at = "backoff",
                               ![j].wake = clock + delay]
    /\ during' = [during EXCEPT ![j] = {}]
    /\ UNCHANGED <<max_calls, time_window, calls, clock, soloVars, phase,
                   sent, task, runs, brave, retryVars>>

\* task j: its asyncio.sleep(delay) of line 87 is over, at the time asked for
\* or later, and the next attempt begins
BusyBackoffEnd(j) ==
    /\ LoopFree(callers, j)
    /\ callers[j].at = "backoff"
    /\ clock' = Later(clock, callers[j].wake)
    /\ callers' = [callers EXCEPT ![j].at = "request"]
    /\ during' = [during EXCEPT ![j] = {}]
    /\ UNCHANGED <<max_calls, time_window, calls, soloVars, phase, sent,
                   task, runs, brave, retryVars>>

\* one second passes
BusyTick == two_tick /\ UNCHANGED during

BusyNext ==
    \/ \E j \in Callers : BusyCheck(j)
    \/ \E j \in Callers : BusyWait(j)
    \/ \E j \in Callers : BusyWake(j)
    \/ \E j \in Callers : BusyRecord(j)
    \/ \E j \in Callers : BusyBackoff(j)
    \/ \E j \in Callers : BusyBackoffEnd(j)
    \/ BusyTick

SpecBusy == BusyInit /\ [][BusyNext]_vars

\* ------------------------------------------------------------ properties

\* a is an order-preserving subsequence of b
RECURSIVE IsSubseq(_, _)
IsSubseq(a, b) ==
    IF a = <<>> THEN TRUE
    ELSE IF b = <<>> THEN FALSE
    ELSE IF Head(a) = Head(b) THEN IsSubseq(Tail(a), Tail(b))
    ELSE IsSubseq(a, Tail(b))

\* how many entries of s equal t
Occurrences(t, s) == Cardinality({i \in DOMAIN s : s[i] = t})

\* every entry of cs lies inside the window that ends at now
AllInWindow(cs, now) == \A i \in DOMAIN cs : now - cs[i] < time_window

\* C1: with max_calls = N >= 1, a can_make_request() that finds exactly N
\* recorded calls, all of them inside the window, returns False; one that
\* finds exactly N-1 such calls returns True.
C1_CapacityBoundary ==
    (op = "can" /\ max_calls >= 1 /\ AllInWindow(pre, nowRead)) =>
        /\ (Len(pre) = max_calls => ret = FALSE)
        /\ (Len(pre) = max_calls - 1 => ret = TRUE)

C1_Witness ==
    /\ op = "can" /\ max_calls = 2 /\ Len(pre) = 2
    /\ AllInWindow(pre, nowRead) /\ ret = FALSE

\* C2: once can_make_request() has returned False and no record_request()
\* followed, a can_make_request() made when the clock is more than
\* time_window past the last recorded call returns True.
C2_ExpiredNeverCount ==
    [][(/\ throttled
        /\ op' = "can"
        /\ calls # <<>>
        /\ clock - calls[Len(calls)] > time_window) => ret']_vars

\* C2 for a positive quota: the same statement for limiters constructed with
\* max_calls >= 1 (it is the zero quota alone that breaks C2).
C2_ExpiredNeverCountPositiveQuota ==
    [][(/\ throttled
        /\ max_calls >= 1
        /\ op' = "can"
        /\ calls # <<>>
        /\ clock - calls[Len(calls)] > time_window) => ret']_vars

\* C3 as stated: can_make_request() removes a timestamp iff its age is
\* strictly greater than time_window (an age equal to time_window is kept).
C3_RemovedIffStrictlyOlder ==
    op = "can" =>
        \A i \in DOMAIN pre :
            (Occurrences(pre[i], calls) = 0) <=> (nowRead - pre[i] > time_window)

\* C3 amended: can_make_request() removes a timestamp iff its age is greater
\* than or equal to time_window; every younger timestamp is kept, as often as
\* it was held.
C3_RemovedIffAgeAtLeastWindow ==
    op = "can" =>
        \A i \in DOMAIN pre :
            IF nowRead - pre[i] >= time_window
            THEN Occurrences(pre[i], calls) = 0
            ELSE Occurrences(pre[i], calls) = Occurrences(pre[i], pre)

C3_Witness ==
    /\ op = "can" /\ time_window >= 1 /\ calls # <<>>
    /\ \E i \in DOMAIN pre :
         nowRead - pre[i] = time_window /\ Occurrences(pre[i], calls) = 0

\* C4: a can_make_request() step adds nothing to calls: calls afterwards is
\* an order-preserving subsequence of calls before, no longer than it, and
\* max_calls and time_window keep their values.
C4_CanMakeRequestOnlyPrunes ==
    [][op' = "can" =>
          /\ IsSubseq(calls', calls)
          /\ Len(calls') <= Len(calls)
          /\ max_calls' = max_calls
          /\ time_window' = time_window]_vars

C4_Witness ==
    op = "can" /\ calls # <<>> /\ Len(calls) < Len(pre) /\ IsSubseq(calls, pre)

\* C5: a record_request() step appends exactly one entry, the current time,
\* at the end of calls; the entries held before keep their places (expired
\* ones included), and max_calls and time_window keep their values.
C5_RecordAppendsNow ==
    [][op' = "record" =>
          /\ Len(calls') = Len(calls) + 1
          /\ calls'[Len(calls')] = clock
          /\ \A i \in DOMAIN calls : calls'[i] = calls[i]
          /\ max_calls' = max_calls
          /\ time_window' = time_window]_vars

C5_Witness ==
    /\ op = "record" /\ Len(pre) >= 1 /\ Len(calls) = Len(pre) + 1
    /\ clock - pre[1] >= time_window /\ calls[1] = pre[1]
    /\ calls[Len(calls)] = clock

\* C6: a wait_if_needed() that finds fewer than max_calls timestamps inside
\* the window returns without suspending, and no wait_if_needed(), suspended
\* or not, leaves in calls a timestamp that was not there before it.
C6_WaitNeverRecords ==
    /\ (op = "wait" /\
        Len(SelectSeq(pre, LAMBDA t : nowRead - t < time_window)) < max_calls)
          => (outcome = "returned" /\ pc = "idle" /\ slept = 0 /\ sleeps = 0
              /\ clock = nowRead)
    /\ op \in {"wait", "wake"} => IsSubseq(calls, pre)

C6_Witness ==
    /\ op = "wait" /\ calls # <<>> /\ Len(calls) < max_calls
    /\ outcome = "returned" /\ pc = "idle"

\* C7: when can_make_request() is False and calls[0] exists, wait_if_needed()
\* suspends iff wait_time = time_window - (now - calls[0]) is positive, for
\* exactly wait_time, and returns without suspending when wait_time <= 0; it
\* suspends at most once and has returned when that suspension ends.
C7_WaitTime ==
    /\ (op = "wait" /\ ~ret /\ calls # <<>>) =>
          LET wait_time == time_window - (clock - calls[1])
          IN  /\ (outcome = "suspended") <=> (wait_time > 0)
              /\ outcome = "suspended" =>
                    (slept = wait_time /\ pc = "sleeping"
                     /\ wake = clock + wait_time)
              /\ wait_time <= 0 =>
                    (outcome = "returned" /\ pc = "idle" /\ slept = 0)
    /\ sleeps <= 1
    /\ op = "wake" => (pc = "idle" /\ clock = wake /\ sleeps = 1)

C7_Witness ==
    /\ op = "wait" /\ ~ret /\ Len(calls) >= 2 /\ calls[1] < calls[Len(calls)]
    /\ outcome = "suspended" /\ slept >= 1 /\ slept < time_window

\* The branch of C7 without suspension: the clock moved on between the two
\* reads of time.time() and wait_time came out as 0 or less.
C7_NoSuspensionReached ==
    /\ op = "wait" /\ ~ret /\ calls # <<>>
    /\ time_window - (clock - calls[1]) <= 0 /\ outcome = "returned"

\* C8: whenever calls is empty after pruning, can_make_request() returns True
\* and wait_if_needed() returns without suspending or raising.
C8_EmptyCallsPermit ==
    /\ (op = "can" /\ calls = <<>>) => ret = TRUE
    /\ (op = "wait" /\ calls = <<>>) => (outcome = "returned" /\ pc = "idle")

\* C9: no operation is ever invoked on a limiter whose max_calls or
\* time_window is zero (construction has rejected it).
C9_ZeroConfigRejected ==
    op \in {"can", "record", "wait", "wake"} =>
        (max_calls # 0 /\ time_window # 0)

\* C10: retry_with_backoff never runs with a RetryConfig whose max_retries is
\* negative or whose base_delay or backoff_factor is not positive, and it
\* never ends without having invoked the operation at least once.
C10_InvalidRetryConfigNeverRuns ==
    /\ (invocations > 0 \/ rpc = "done") =>
          (max_retries >= 0 /\ base_delay > 0 /\ backoff_factor > 0)
    /\ rpc = "done" => invocations >= 1

\* C10, second half alone: the run that ends with no invocation at all.
C10_EndsOnlyAfterInvoking ==
    rpc = "done" => invocations >= 1

\* The log of a run whose first k-1 invocations raised a retryable failure,
\* each followed by one suspension, and whose k-th invocation ended as last.
ExpectedLog(k, last) ==
    [i \in 1 .. (2 * k - 1) |->
        IF i = 2 * k - 1 THEN last
        ELSE IF i % 2 = 1 THEN "retryable" ELSE "sleep"]

\* C11: a retry_with_backoff that returns has invoked the operation k times,
\* the first k-1 raising retryable failures, with exactly one suspension
\* after each of those and none after the success, and returns the k-th
\* invocation's result; and it gives up on retryable failures only after
\* invocation max_retries + 1, so every k <= max_retries + 1 is reached.
C11_SucceedsOnKthAttempt ==
    /\ ended.how = "returned" =>
          LET k == invocations
          IN  /\ k >= 1
              /\ log = ExpectedLog(k, "ok")
              /\ Len(delays) = k - 1
              /\ ended.val = k
              /\ rpc = "done"
    /\ (rpc = "done" /\ ended.how = "raised" /\ ended.exc.kind = "retryable")
          => invocations = max_retries + 1

C11_Witness ==
    /\ ended.how = "returned" /\ invocations = 3 /\ ended.val = 3
    /\ log = <<"retryable", "sleep", "retryable", "sleep", "ok">>

\* C11 for k = 1: success on the first attempt, no suspension at all.
C11_FirstAttemptReached ==
    ended.how = "returned" /\ invocations = 1 /\ delays = <<>> /\ log = <<"ok">>

\* C12: with max_retries = R >= 0 and every invocation raising a retryable
\* failure, the finished run has invoked the operation R+1 times, suspended
\* R times (never after the last failure) and raised the failure of
\* invocation R+1 itself.
C12_ExhaustedRetries ==
    (/\ rpc = "done"
     /\ max_retries >= 0
     /\ \A i \in DOMAIN log : log[i] \in {"retryable", "sleep"}) =>
        /\ invocations = max_retries + 1
        /\ log = ExpectedLog(max_retries + 1, "retryable")
        /\ Len(delays) = max_retries
        /\ ended = [how |-> "raised",
                    exc |-> [kind |-> "retryable", at |-> max_retries + 1],
                    val |-> 0]

C12_Witness ==
    /\ rpc = "done" /\ max_retries = 2 /\ invocations = 3
    /\ Len(delays) = 2 /\ ended.how = "raised" /\ ended.exc.at = 3
    /\ ended.exc.kind = "retryable"

\* C13: a failure that is not retryable is the last thing a run does: the
\* run has ended raising that very failure, with no invocation and no
\* suspension after it, on the first attempt as on any later one.
C13_NonRetryablePropagates ==
    \A i \in DOMAIN log :
        log[i] = "other" =>
            /\ i = Len(log)
            /\ rpc = "done"
            /\ ended = [how |-> "raised",
                        exc |-> [kind |-> "other", at |-> invocations],
                        val |-> 0]
            /\ (i = 1 => (invocations = 1 /\ delays = <<>>))

C13_Witness ==
    /\ log = <<"retryable", "sleep", "other">> /\ rpc = "done"
    /\ invocations = 2 /\ Len(delays) = 1 /\ ended.exc.at = 2

\* C13, first attempt: exactly one invocation and no delay.
C13_FirstAttemptReached ==
    log = <<"other">> /\ rpc = "done" /\ invocations = 1 /\ delays = <<>>

\* C14: the i-th suspension (after the failed attempt with index i-1) lasts
\* base_delay * backoff_factor ** (i-1): the first lasts base_delay and each
\* later one backoff_factor times the one before, whatever its size; there
\* are at most max_retries of them.
C14_ExponentialDelays ==
    LET pw[e \in 0 .. Len(delays)] ==
            IF e = 0 THEN 1 ELSE backoff_factor * pw[e - 1]
    IN  /\ \A i \in DOMAIN delays :
            /\ delays[i] = base_delay * pw[i - 1]
            /\ i = 1 => delays[i] = base_delay
            /\ i > 1 => delays[i] = backoff_factor * delays[i - 1]
        /\ Len(delays) <= IF max_retries >= 0 THEN max_retries ELSE 0

C14_Witness ==
    /\ max_retries = 3 /\ base_delay = 1 /\ backoff_factor = 2
    /\ log = <<"retryable", "sleep", "retryable", "sleep", "ok">>
    /\ delays = <<1, 2>> /\ invocations = 3 /\ ended.how = "returned"

\* how many entries of cs lie in the window of length time_window that
\* starts at s (s included, s + time_window excluded, as line 29 counts)
InWindowFrom(cs, s) ==
    Cardinality({i \in DOMAIN cs : s <= cs[i] /\ cs[i] < s + time_window})

\* C16: for the protocol caller on a limiter with max_calls >= 1 and
\* time_window > 0, no window of length time_window ever holds more than
\* max_calls of the times at which a request was recorded, and calls is no
\* longer than max_calls after each pruning.  (Every set of recorded times that
\* fits in one window fits in the window that starts at its earliest member.)
C16_ProtocolKeepsQuota ==
    (max_calls >= 1 /\ time_window >= 1) =>
        /\ \A i \in DOMAIN sent : InWindowFrom(sent, sent[i]) <= max_calls
        /\ op \in {"can", "wait"} => Len(calls) <= max_calls

C16_Witness ==
    /\ phase = "start" /\ op = "record" /\ max_calls = 2 /\ time_window = 2
    /\ Len(calls) = 3 /\ clock - calls[1] >= time_window
    /\ Len(sent) = 2 /\ InWindowFrom(sent, sent[1]) = 2

\* C17: whenever wait_if_needed() has just returned to the protocol caller,
\* suspended or not, a can_make_request() evaluated at that instant is True.
C17_CapacityAfterWait ==
    (phase = "request" /\ op \in {"wait", "wake"}) =>
        Len(SelectSeq(calls, LAMBDA t : clock - t < time_window)) < max_calls

C17_Witness ==
    /\ phase = "request" /\ op = "wake" /\ max_calls = 2
    /\ Len(calls) = 2 /\ calls[1] = calls[2] /\ slept >= 1
    /\ Len(SelectSeq(calls, LAMBDA t : clock - t < time_window)) = 0

\* some window holds more recorded times than max_calls
Overshoot ==
    \E i \in DOMAIN sent : InWindowFrom(sent, sent[i]) > max_calls

\* C15: with two tasks sharing a limiter (max_calls >= 1, time_window >= 1),
\* a record_request made on a True answer of wait_if_needed that no other
\* task's record has made out of date leaves at most max_calls recorded times
\* in the window that ends now; the excess that C15_Witness reaches needs the
\* out-of-date answer.
C15_FreshAnswerKeepsQuota ==
    [][\A j \in Callers :
        ( /\ max_calls >= 1 /\ time_window >= 1
          /\ callers[j].at = "request" /\ callers'[j].at = "start"
          /\ callers[j].saw /\ ~callers[j].stale )
        => InWindowFrom(sent', clock' - time_window + 1) <= max_calls]_vars

\* both tasks were told True before either recorded, both recorded, and the
\* window holds more than max_calls
C15_Witness ==
    /\ max_calls >= 1 /\ time_window >= 1
    /\ \E i, j \in Callers :
        /\ i # j
        /\ callers[i].at = "start" /\ callers[i].saw /\ callers[i].last = "clean"
        /\ callers[j].at = "start" /\ callers[j].saw /\ callers[j].last = "raced"
    /\ Overshoot

\* the same excess by the other path: both tasks were told False, slept until
\* the oldest entry expired, and recorded without checking again
C15_BothSleptReached ==
    /\ max_calls >= 1 /\ time_window >= 1
    /\ \A i \in Callers :
        callers[i].at = "start" /\ ~callers[i].saw /\ callers[i].wake > 0
    /\ Overshoot

\* C18: during a retry run every step leaves calls as it is, except an
\* invocation of an operation that records, which appends the current time and
\* nothing else; while and after a run whose operation does not touch the
\* limiter, calls is what it was when the run began.
C18_RetryLeavesLimiterAlone ==
    [][phase = "retrying" =>
        /\ \/ calls' = calls
           \/ /\ task.touches /\ invocations' = invocations + 1
              /\ calls' = Append(calls, clock)
        /\ <<max_calls', time_window'>> = <<max_calls, time_window>>
        /\ ~task'.touches => calls' = task'.entry]_vars

C18_Witness ==
    /\ phase = "retrying" /\ rpc = "done" /\ ~task.touches
    /\ Len(delays) >= 2 /\ invocations >= 3
    /\ calls # <<>> /\ calls = task.entry /\ clock > calls[Len(calls)]

\* C19: once the task has been cancelled, in the sleep of wait_if_needed or
\* in a backoff sleep, calls gains no entry and the operation is not invoked
\* again, and the task is over.
C19_CancelledDoesNothingMore ==
    [][task.cancelled # "no" =>
        /\ calls' = calls
        /\ invocations' = invocations
        /\ phase' = "cancelled"]_vars

C19_Witness ==
    /\ task.cancelled = "backoff" /\ phase = "cancelled" /\ op = "tick"
    /\ task.touches /\ invocations >= 1 /\ attempt < max_retries
    /\ ended.exc = Cancelled

C19_CancelledInWaitReached ==
    /\ task.cancelled = "wait" /\ phase = "cancelled" /\ op = "tick"
    /\ pc = "idle" /\ Len(calls) >= max_calls /\ clock < wake

\* the frame a run with RetryConfig of r ends in when it runs with nothing
\* else under way and its operation does, invocation by invocation, what os
\* lists
RECURSIVE Alone(_, _)
Alone(r, os) ==
    IF r.rpc = "done" THEN r
    ELSE IF r.rpc = "sleeping" THEN Alone(run_resume(r), os)
    ELSE IF r.attempt > r.max_retries THEN Alone(run_fall_through(r), os)
    ELSE IF r.invocations >= Len(os) THEN r
    ELSE Alone(run_iteration(r, os[r.invocations + 1]), os)

AloneWith(r) ==
    Alone(Entered(<<r.max_retries, r.base_delay, r.backoff_factor>>), r.seen)

\* C20: in every interleaving of two retry runs, a run that has ended has
\* made the invocations, used the delays and ended with the result or failure
\* that it has when it runs alone with the same RetryConfig and the same
\* behaviour of its operation; and at every moment its attempt counter and
\* remembered failure are those of the run alone at that point.
C20_RunsAreIndependent ==
    \A i \in Runs :
        /\ runs[i].rpc = "done" =>
              LET a == AloneWith(runs[i])
              IN  /\ a.rpc = "done"
                  /\ a.invocations = runs[i].invocations
                  /\ a.delays = runs[i].delays
                  /\ a.ended = runs[i].ended
        /\ runs[i].rpc = "loop" =>
              LET a == AloneWith(runs[i])
              IN  /\ a.attempt = runs[i].attempt
                  /\ a.last_exception = runs[i].last_exception

\* both runs ended after retrying, their steps interleaved, with different
\* configurations and different results
C20_Witness ==
    /\ runs[1].rpc = "done" /\ runs[2].rpc = "done"
    /\ runs[1].max_retries = 1 /\ runs[2].max_retries = 3
    /\ runs[1].seen = <<"retryable", "retryable">>
    /\ runs[2].seen = <<"retryable", "retryable", "ok">>
    /\ runs[1].ended.exc = [kind |-> "retryable", at |-> 2]
    /\ runs[2].ended.val = 3
    /\ runs[2].delays = <<1, 2>> /\ runs[2].base_delay = 1

\* the entries of calls that lie in the window ending now
InWindowNow == SelectSeq(calls, LAMBDA t : clock - t < time_window)

\* C23: a retry_with_backoff with max_retries >= 0 invokes the operation at
\* least once and at most max_retries + 1 times and comes to an end, every
\* invocation and sleep ending; it makes max_retries + 1 invocations only if
\* every one before the last raised a retryable failure.
C23_BoundedAndTerminates ==
    /\ <>(rpc = "done")
    /\ [](max_retries >= 0 =>
            /\ invocations <= max_retries + 1
            /\ rpc = "done" => invocations >= 1
            /\ invocations = max_retries + 1 =>
                  \A i \in 1 .. Len(log) - 1 :
                      log[i] \in {"retryable", "sleep"})

C23_Witness ==
    /\ rpc = "done" /\ max_retries = 3 /\ invocations = 4
    /\ log[Len(log)] = "ok" /\ Len(delays) = 3

\* C26: record_request() appends in every limiter state, at or above
\* capacity as well, so calls can grow beyond max_calls; a record that
\* directly follows a can_make_request() that returned True leaves at most
\* max_calls entries in the window.
C26_RecordIsUnconditional ==
    [][op' = "record" =>
        /\ Len(calls') = Len(calls) + 1
        /\ calls'[Len(calls')] = clock
        /\ (op = "can" /\ ret /\ time_window >= 1) =>
              Len(SelectSeq(calls', LAMBDA t : clock' - t < time_window))
                  <= max_calls]_vars

C26_Witness ==
    /\ op = "record" /\ max_calls >= 1 /\ time_window >= 1
    /\ Len(pre) >= max_calls + 1 /\ Len(calls) = Len(pre) + 1
    /\ Len(InWindowNow) = Len(calls)

\* C27: wait_if_needed() has returned and can_make_request() is false at
\* that instant only if more than max_calls entries were retained when it
\* computed its wait: it waits for calls[0] alone and does not check again.
C27_ReturnsWithoutCapacityOnlyAboveQuota ==
    (/\ op \in {"wait", "wake"} /\ outcome = "returned"
     /\ max_calls >= 1
     /\ Len(InWindowNow) >= max_calls) =>
        Len(calls) > max_calls

C27_Witness ==
    /\ op = "wake" /\ outcome = "returned" /\ slept >= 1
    /\ max_calls >= 1 /\ Len(calls) > max_calls
    /\ Len(InWindowNow) >= max_calls

\* C28: whenever wait_if_needed() suspends, the length of the suspension is
\* strictly positive and at most time_window.
C28_SuspensionLength ==
    (op = "wait" /\ outcome = "suspended") =>
        /\ slept > 0
        /\ slept <= time_window
        /\ pc = "sleeping" /\ wake = clock + slept

C28_Witness ==
    /\ op = "wait" /\ outcome = "suspended"
    /\ slept = time_window /\ time_window >= 2 /\ Len(calls) > max_calls

C28_ShortSuspensionReached ==
    op = "wait" /\ outcome = "suspended" /\ slept = 1 /\ time_window >= 2

\* C29: calls is in non-decreasing order in every reachable state, calls[0]
\* is its smallest entry, and what a pruning leaves is a suffix of what it
\* found (it removes a prefix).
C29_CallsSorted ==
    /\ \A i, j \in DOMAIN calls : i <= j => calls[i] <= calls[j]
    /\ op \in {"can", "wait"} =>
          /\ Len(calls) <= Len(pre)
          /\ calls = SubSeq(pre, Len(pre) - Len(calls) + 1, Len(pre))
          /\ \A i \in 1 .. (Len(pre) - Len(calls)) :
                 nowRead - pre[i] >= time_window

C29_Witness ==
    /\ op = "can" /\ Len(pre) >= 3 /\ Len(calls) = 2
    /\ calls[1] < calls[2] /\ pre[1] < calls[1]

\* C30: with max_calls >= 1 and two cooperative tasks on one limiter, a
\* wait_if_needed() that was told False finds at least max_calls entries in
\* calls when it reads calls[0], and never fails at that read.
C30_NeverReadsEmptyCalls ==
    [][\A i \in Callers :
        ( /\ max_calls >= 1
          /\ callers[i].at = "start" /\ callers'[i].at # "start"
          /\ ~callers'[i].saw )
        => /\ Len(calls') >= max_calls
           /\ callers'[i].at # "failed"]_vars

C30_Witness ==
    /\ max_calls >= 1
    /\ callers[1].at = "asleep" /\ ~callers[1].saw
    /\ callers[2].at = "asleep" /\ ~callers[2].saw /\ callers[2].stale
    /\ callers[1].last = "raced"
    /\ Len(calls) > max_calls

\* C22: a search_brave_api call with an empty or blank query, an empty
\* api_key or a max_results outside 1..50 ends at once with the ValueError
\* of the first of these tests that fails, the limiter untouched (no prune,
\* no record, no suspension) and the request never made; a call that passes
\* the three tests raises no ValueError.
C22_InvalidArgumentsTouchNothing ==
    [][(brave.at = "idle" /\ brave' # brave) =>
        LET q == brave'.args[1]
            k == brave'.args[2]
            m == brave'.args[3]
            blank == \A i \in DOMAIN q : q[i] = " "
            said  == IF blank THEN "Query cannot be empty"
                     ELSE IF Len(k) = 0 THEN "API key is required"
                     ELSE "max_results must be between 1 and 50"
        IN  IF blank \/ Len(k) = 0 \/ m \notin 1 .. 50
            THEN /\ brave'.result =
                      [how |-> "raised",
                       of |-> [class |-> "ValueError", status |-> 0],
                       at |-> 0, msg |-> said]
                 /\ brave'.at = "idle"
                 /\ limVars' = limVars
                 /\ retryVars' = retryVars
            ELSE /\ brave'.result.how # "raised"
                 /\ brave'.at \in {"ready", "waiting"}
                 /\ op' = "wait"]_vars

C22_Witness ==
    /\ brave.at = "idle" /\ brave.result.how = "raised"
    /\ brave.result.of.class = "ValueError"
    /\ brave.result.msg = "max_results must be between 1 and 50"
    /\ brave.args # <<>> /\ brave.args[3] = 51
    /\ Len(calls) >= max_calls /\ clock - calls[1] >= time_window
    /\ Len(InWindowNow) >= max_calls

C22_BlankQueryReached ==
    /\ brave.result.msg = "Query cannot be empty"
    /\ brave.args # <<>> /\ brave.args[1] = <<" ">>
    /\ calls # <<>>

\* C24: the limiter of a caller that makes one search_brave_api call after
\* another never holds more than max_calls timestamps in one window.
C24_BraveQuotaKept ==
    \A i \in DOMAIN calls : InWindowFrom(calls, calls[i]) <= max_calls

\* C25: in a search_brave_api call every attempt is preceded by exactly one
\* record_request; when every attempt fails with HTTPStatusError or
\* RequestError there are 4 attempts with delays 1, 2 and 4, and the call
\* raises what the fourth attempt raised, after a sleep of 60 exactly when
\* that is an HTTPStatusError with status 429.
C25_AllAttemptsFail ==
    /\ brave.at = "retrying" =>
          /\ Len(calls) = Len(brave.entry) + invocations
          /\ SubSeq(calls, 1, Len(brave.entry)) = brave.entry
          /\ \A i \in (Len(brave.entry) + 1) .. Len(calls) :
                 calls[i] <= clock
    /\ ( /\ brave.at \in {"retrying", "napping"} /\ rpc = "done"
         /\ \A i \in DOMAIN log : log[i] \in {"retryable", "sleep"} ) =>
          /\ invocations = 4
          /\ delays = <<1, 2, 4>>
          /\ Len(calls) = Len(brave.entry) + 4
          /\ ended.how = "raised" /\ ended.exc.at = 4
          /\ brave.thrown = brave.latest
          /\ brave.thrown.class \in {"HTTPStatusError", "RequestError"}
          /\ brave.at = "napping" =>
                brave.thrown.class = "HTTPStatusError"
                    /\ brave.thrown.status = 429 /\ brave.nap = 60
    /\ ( /\ brave.at = "idle" /\ brave.result.how = "raised"
         /\ brave.result.at >= 1 ) =>
          /\ brave.result.of = brave.latest
          /\ brave.result.of.class \in {"HTTPStatusError", "RequestError"}
                => brave.result.at = 4
          /\ brave.nap = IF brave.result.of.class = "HTTPStatusError"
                            /\ brave.result.of.status = 429
                         THEN 60 ELSE 0

C25_Witness ==
    /\ brave.at = "idle" /\ brave.result.how = "raised"
    /\ brave.result.at = 4 /\ brave.nap = 60
    /\ brave.result.of = [class |-> "HTTPStatusError", status |-> 429]
    /\ Len(calls) = Len(brave.entry) + 4

C25_UnauthorizedReached ==
    /\ brave.at = "idle" /\ brave.result.how = "raised"
    /\ brave.result.at = 4 /\ brave.nap = 0
    /\ brave.result.of = [class |-> "HTTPStatusError", status |-> 401]

\* what a task other than the suspended ones can do in the present state:
\* the limiter call that stands next in task j is ready to run
OthersCanRun ==
    \A i \in Callers : \A j \in Callers \ {i} :
        Suspended(callers[i]) =>
            /\ callers[j].at = "start" =>
                   (ENABLED BusyCheck(j)) /\ (ENABLED BusyWait(j))
            /\ (callers[j].at = "request" /\ Len(calls) < MaxLen
                    /\ clock <= MaxTime) =>
                   ENABLED BusyRecord(j)
            /\ callers[j].at = "asleep" => ENABLED BusyWake(j)

\* a step in which another task completes a limiter call leaves a suspended
\* task suspended, in the same delay and with the same wake-up time
WakeTimeKept ==
    \A i \in Callers :
        (Suspended(callers[i]) /\ during'[i] # during[i]
             /\ during'[i] # {}) =>
            /\ callers'[i].at = callers[i].at
            /\ callers'[i].wake = callers[i].wake

\* C21: while a task is suspended in the delay of wait_if_needed() or in a
\* backoff delay, every other task can run the limiter call it has reached
\* (can_make_request(), wait_if_needed(), record_request()), and no such call
\* changes the time at which the suspended task wakes up.
C21_SuspendedTaskBlocksNobody == []OthersCanRun /\ [][WakeTimeKept]_vars

\* task 1 is still in the delay of wait_if_needed() and task 2 has meanwhile
\* completed can_make_request(), record_request() and a wait_if_needed()
C21_Witness ==
    /\ callers # <<>> /\ during # <<>>
    /\ callers[1].at = "asleep" /\ clock < callers[1].wake
    /\ during[1] = {"can", "record", "wait"}

\* the same with task 1 in a backoff delay
C21_BackoffReached ==
    /\ callers # <<>> /\ during # <<>>
    /\ callers[1].at = "backoff" /\ clock < callers[1].wake
    /\ during[1] = {"can", "record", "wait"}

====
